---------------------------- MODULE Spec2Model ----------------------------
(***************************************************************************)
(* A model of src/fully_connected_networks.py: the layer primitives        *)
(* (Linear, ReLU, Linear_ReLU, Dropout, softmax_loss), the two network     *)
(* classes (TwoLayerNet, FullyConnectedNet) and the four update rules.     *)
(*                                                                         *)
(* Numbers.  A torch tensor is a record [shape, data] with the data in     *)
(* row-major order.  Inputs, weights, biases and activations are integer   *)
(* valued (integers are exact in floating point).  Softmax probabilities,  *)
(* losses and gradients are fixed-point numbers in units of 1/FixOne; a    *)
(* product of a fixed-point number and an integer is again fixed-point.    *)
(* The value inf of floating point (log of a probability that underflowed  *)
(* to 0) is kept as a flag next to the number.                             *)
(***************************************************************************)
EXTENDS Integers, Sequences, FiniteSets, TLC

VARIABLES
    (* layer primitives called directly *)
    lx, lw, lb, ldout,      \* the arguments x, w, b, dout of the calls
    lres,                   \* what the last layer call returned
    ly,                     \* the argument y (labels) of softmax_loss
    lparam,                 \* the caller's dropout_param dictionary
    lfwd, lbwd,             \* the Dropout.forward / Dropout.backward call made
    lsoft,                  \* the softmax_loss call made
    (* the networks *)
    ctor,                   \* the constructor call made, with its arguments
    net,                    \* the network object (self), or NoNet
    err,                    \* the exception the last operation raised, or "none"
    rng,                    \* state of torch's process-wide random generator
    pc,                     \* position inside FullyConnectedNet.loss
    X, y,                   \* arguments of the loss call in progress / last made
    mode, out, cache, cache_drop, scores, loss, dout, grads, i,
                            \* locals of FullyConnectedNet.loss
    ret,                    \* what the last loss call returned
    log,                    \* the layer calls made by the loss call, in order
    ncalls,                 \* loss calls completed on this network
    (* the update rules *)
    w, dw, config,          \* the caller's parameter tensor, gradient and config
    next_w,                 \* the tensor the last update rule returned
    nsteps                  \* update calls made

callVars  == <<ly, lparam, lfwd, lbwd, lsoft>>
layerVars == <<lx, lw, lb, ldout, lres, callVars>>
frameVars == <<X, y, mode, out, cache, cache_drop, scores, loss, dout, grads, i>>
netVars   == <<ctor, net, err, rng, pc, frameVars, ret, log, ncalls>>
optVars   == <<w, dw, config, next_w, nsteps>>
vars      == <<layerVars, netVars, optVars>>

---------------------------------------------------------------------------
(* Tensor arithmetic (the torch calls the source makes).                   *)

\* One unit of the fixed-point numbers: 1.0 is FixOne.
FixOne == 1024

None == [shape |-> <<>>, data |-> <<>>, none |-> TRUE]

Tensor(shape, data) == [shape |-> shape, data |-> data]

RECURSIVE SumSeq(_)
SumSeq(s) == IF s = <<>> THEN 0 ELSE Head(s) + SumSeq(Tail(s))

RECURSIVE ProdSeq(_)
ProdSeq(s) == IF s = <<>> THEN 1 ELSE Head(s) * ProdSeq(Tail(s))

\* x.size(dim=0)
size0(x) == x.shape[1]

\* torch.prod(torch.tensor(x.shape[1:])).item()
prod_shape1(x) == ProdSeq(Tail(x.shape))

\* x.reshape(shape): the same data under another shape
reshape(x, shape) == Tensor(shape, x.data)

\* torch.mm(a, b) for a of shape (n, k) and b of shape (k, m)
mm(a, b) ==
    LET n == a.shape[1]
        k == a.shape[2]
        m == b.shape[2]
    IN  Tensor(<<n, m>>,
               [e \in 1..(n * m) |->
                   LET r == ((e - 1) \div m) + 1
                       c == ((e - 1) % m) + 1
                   IN  SumSeq([l \in 1..k |->
                           a.data[(r - 1) * k + l] * b.data[(l - 1) * m + c]])])

\* a.t() for a of shape (n, m)
t(a) ==
    LET n == a.shape[1]
        m == a.shape[2]
    IN  Tensor(<<m, n>>,
               [e \in 1..(n * m) |->
                   LET r == ((e - 1) \div n) + 1
                       c == ((e - 1) % n) + 1
                   IN  a.data[(c - 1) * m + r]])

\* a + b for a of shape (n, m) and b of shape (m,): b is broadcast over rows
add_bias(a, b) ==
    Tensor(a.shape,
           [e \in 1..Len(a.data) |-> a.data[e] + b.data[((e - 1) % a.shape[2]) + 1]])

\* torch.sum(a, dim=0) for a of shape (n, m)
sum_dim0(a) ==
    LET n == a.shape[1]
        m == a.shape[2]
    IN  Tensor(<<m>>,
               [c \in 1..m |-> SumSeq([r \in 1..n |-> a.data[(r - 1) * m + c]])])

\* torch.sum(a * a)
sum_sq(a) == SumSeq([e \in 1..Len(a.data) |-> a.data[e] * a.data[e]])

\* torch.max(x, torch.zeros_like(x))
max_zero(x) ==
    Tensor(x.shape, [e \in 1..Len(x.data) |-> IF x.data[e] > 0 THEN x.data[e] ELSE 0])

\* dout * (x > 0)
mul_positive(d, x) ==
    Tensor(d.shape, [e \in 1..Len(d.data) |-> IF x.data[e] > 0 THEN d.data[e] ELSE 0])

\* a * b, elementwise
mul(a, b) == Tensor(a.shape, [e \in 1..Len(a.data) |-> a.data[e] * b.data[e]])

\* a + s * b, elementwise, for a scalar s
add_scaled(a, s, b) ==
    Tensor(a.shape, [e \in 1..Len(a.data) |-> a.data[e] + s * b.data[e]])

\* torch.zeros(n)
zeros(n) == Tensor(<<n>>, [e \in 1..n |-> 0])

\* torch.zeros_like(a)
zeros_like(a) == Tensor(a.shape, [e \in 1..Len(a.data) |-> 0])

---------------------------------------------------------------------------
(* Layer primitives.                                                       *)

Linear_forward(x, w_, b) ==
    LET N == size0(x)
        D == prod_shape1(x)
    IN  [out   |-> add_bias(mm(reshape(x, <<N, D>>), w_), b),
         cache |-> <<x, w_, b>>]

\* The slip of multiplying the wrong way round for dw: dout^T x, of shape
\* (M, D), instead of x^T dout, of shape (D, M).
Linear_backward_dw_T(dout_, cache_) ==
    LET x  == cache_[1]
        w_ == cache_[2]
        N  == size0(x)
        D  == prod_shape1(x)
    IN  [dx |-> reshape(mm(dout_, t(w_)), x.shape),
         dw |-> mm(t(dout_), reshape(x, <<N, D>>)),
         db |-> sum_dim0(dout_)]

Linear_backward(dout_, cache_) ==
    LET x  == cache_[1]
        w_ == cache_[2]
        N  == size0(x)
        D  == prod_shape1(x)
    IN  [dx |-> reshape(mm(dout_, t(w_)), x.shape),
         dw |-> mm(t(reshape(x, <<N, D>>)), dout_),
         db |-> sum_dim0(dout_)]

ReLU_forward(x) == [out |-> max_zero(x), cache |-> x]

ReLU_backward(dout_, cache_) == mul_positive(dout_, cache_)

Linear_ReLU_forward(x, w_, b) ==
    LET N1 == size0(x)
        D1 == prod_shape1(x)
        out_linear == add_bias(mm(reshape(x, <<N1, D1>>), w_), b)
    IN  [out   |-> max_zero(out_linear),
         cache |-> <<x, w_, b, out_linear>>]

\* The slip of letting the gradient through where the pre-activation is 0
\* (out_linear >= 0 instead of out_linear > 0).
Linear_ReLU_backward_ge(dout_, cache_) ==
    LET x  == cache_[1]
        w_ == cache_[2]
        out_linear == cache_[4]
        N  == size0(x)
        D  == prod_shape1(x)
        d_relu == Tensor(dout_.shape,
                         [e \in 1..Len(dout_.data) |->
                             IF out_linear.data[e] >= 0 THEN dout_.data[e] ELSE 0])
    IN  [dx |-> reshape(mm(d_relu, t(w_)), x.shape),
         dw |-> mm(t(reshape(x, <<N, D>>)), d_relu),
         db |-> sum_dim0(d_relu)]

Linear_ReLU_backward(dout_, cache_) ==
    LET x  == cache_[1]
        w_ == cache_[2]
        out_linear == cache_[4]
        N  == size0(x)
        D  == prod_shape1(x)
        d_relu == mul_positive(dout_, out_linear)
    IN  [dx |-> reshape(mm(d_relu, t(w_)), x.shape),
         dw |-> mm(t(reshape(x, <<N, D>>)), d_relu),
         db |-> sum_dim0(d_relu)]

\* exp(d) for d <= 0 in units of 1/FixOne, rounded; 0 once it underflows
ExpTable == <<1024, 377, 139, 51, 19, 7, 3, 1>>

exp_fix(d) == IF 1 - d <= Len(ExpTable) THEN ExpTable[1 - d] ELSE 0

RECURSIVE MaxSeq(_)
MaxSeq(s) ==
    IF Len(s) = 1 THEN s[1]
    ELSE LET m == MaxSeq(Tail(s)) IN IF Head(s) > m THEN Head(s) ELSE m

\* torch.exp(x) / torch.sum(torch.exp(x), axis=1, keepdims=True) for x of shape
\* (N, C), in units of 1/FixOne.  Numerator and denominator are both scaled by
\* exp(-max of the row), which leaves the quotient what it is and keeps the
\* numbers in range.
softmax(x) ==
    LET C == x.shape[2]
        row(r) == [c \in 1..C |-> x.data[(r - 1) * C + c]]
        ex(r, c) == exp_fix(x.data[(r - 1) * C + c] - MaxSeq(row(r)))
        den(r) == SumSeq([c \in 1..C |-> ex(r, c)])
    IN  Tensor(x.shape,
               [e \in 1..Len(x.data) |->
                   LET r == ((e - 1) \div C) + 1
                       c == ((e - 1) % C) + 1
                   IN  (ex(r, c) * FixOne) \div den(r)])

RECURSIVE ILog2(_)
ILog2(n) == IF n <= 1 THEN 0 ELSE 1 + ILog2(n \div 2)

\* torch.log(f) for f > 0 in units of 1/FixOne, as a result in the same units:
\* ln(f) = log2(f) * ln(2), with log2 rounded down and ln(2) = 710/1024
log_fix(f) == (ILog2(f) - ILog2(FixOne)) * 710

\* The column that f[i, y] reads for a python index y into C columns: a
\* negative index counts from the end; 0 when y is out of range (IndexError).
py_index(y_, C) ==
    IF 0 <= y_ /\ y_ < C THEN y_ + 1
    ELSE IF -C <= y_ /\ y_ < 0 THEN C + y_ + 1
    ELSE 0

\* A loss is [inf, v]: the number v in units of 1/FixOne, or inf
loss_add(l, v) == [inf |-> l.inf, v |-> IF l.inf THEN 0 ELSE l.v + v]

softmax_loss(x, y_) ==
    LET f == softmax(x)
        N == size0(x)
        C == x.shape[2]
        at(r) == (r - 1) * C + py_index(y_[r], C)
        picked == [r \in 1..N |-> f.data[at(r)]]
        isinf == \E r \in 1..N : picked[r] = 0
        hit(e) == \E r \in 1..N : at(r) = e
    IN  IF \E r \in 1..N : py_index(y_[r], C) = 0
        THEN [err |-> "IndexError", loss |-> [inf |-> FALSE, v |-> 0], dx |-> None]
        ELSE [err  |-> "none",
              loss |-> [inf |-> isinf,
                        v   |-> IF isinf THEN 0
                                ELSE (0 - SumSeq([r \in 1..N |-> log_fix(picked[r])])) \div N],
              dx   |-> Tensor(f.shape,
                              [e \in 1..Len(f.data) |->
                                  (IF hit(e) THEN f.data[e] - FixOne ELSE f.data[e]) \div N])]

---------------------------------------------------------------------------
(* torch's process-wide random generator and Dropout.                      *)

\* The generator has RngMod states; a draw steps it and yields the new state r,
\* which stands for the uniform number r / RngMod of [0, 1).
RngMod == 16

rng_step(s) == (5 * s + 3) % RngMod

\* torch.manual_seed(seed)
manual_seed(seed) == seed % RngMod

RECURSIVE rng_after(_, _)
rng_after(s, n) == IF n = 0 THEN s ELSE rng_after(rng_step(s), n - 1)

\* torch.rand_like(x): one draw per element
rand_like(x, s) ==
    [vals |-> [e \in 1..Len(x.data) |-> rng_after(s, e)],
     rng  |-> rng_after(s, Len(x.data))]

\* A drop probability p is the fraction <<pn, pd>>.  dropout_param is the
\* dictionary; a cache holds the dictionary itself (a reference, DictRef), not
\* a copy of it, next to the mask.
DictRef == "dropout_param"

Dropout_forward(x, dropout_param, s) ==
    LET p    == dropout_param["p"]
        mode_ == dropout_param["mode"]
        s1   == IF "seed" \in DOMAIN dropout_param
                THEN manual_seed(dropout_param["seed"]) ELSE s
        keepn == p[2] - p[1]      \* p = 1 - p, as keepn / p[2]
        random == rand_like(x, s1)
        mask == Tensor(x.shape,
                       [e \in 1..Len(x.data) |->
                           IF random.vals[e] * p[2] < keepn * RngMod
                           THEN p[2] \div keepn ELSE 0])
    IN  IF mode_ = "train"
        THEN [out |-> mul(mask, x), cache |-> <<DictRef, mask>>, rng |-> random.rng]
        ELSE IF mode_ = "test"
        THEN [out |-> x, cache |-> <<DictRef, None>>, rng |-> s1]
        ELSE [out |-> None, cache |-> <<DictRef, None>>, rng |-> s1]

\* dout * mask with the mask None of a forward call that was not in train
\* mode raises TypeError
Dropout_backward_raises(cache_, dropout_param) ==
    dropout_param["mode"] = "train" /\ cache_[2] = None

\* dropout_param is what the dictionary the cache refers to holds now
Dropout_backward(dout_, cache_, dropout_param) ==
    LET mask  == cache_[2]
        mode_ == dropout_param["mode"]
    IN  IF mode_ = "train" THEN mul(dout_, mask)
        ELSE IF mode_ = "test" THEN dout_
        ELSE None

---------------------------------------------------------------------------
(* Values the variables of a part of the model hold while another part is  *)
(* the one being run.                                                      *)

NoNet == [class |-> "none"]
NoRet == [kind |-> "none"]
NoLoss == [inf |-> FALSE, v |-> 0]
YNone == [is_none |-> TRUE, v |-> <<>>]
Labels(v) == [is_none |-> FALSE, v |-> v]

CallsIdle ==
    /\ ly = <<>> /\ lparam = <<>> /\ lfwd = <<>> /\ lbwd = <<>> /\ lsoft = <<>>

LayersIdle ==
    /\ lx = None /\ lw = None /\ lb = None /\ ldout = None
    /\ lres = [fused |-> <<>>, separate |-> <<>>]
    /\ CallsIdle

FrameIdle ==
    /\ X = None /\ y = YNone /\ mode = "none"
    /\ out = <<>> /\ cache = <<>> /\ cache_drop = <<>>
    /\ scores = None /\ loss = NoLoss /\ dout = <<>> /\ grads = <<>> /\ i = 0

NetIdle ==
    /\ ctor = NoNet /\ net = NoNet /\ err = "none" /\ rng = 0 /\ pc = "idle"
    /\ FrameIdle
    /\ ret = NoRet /\ log = <<>> /\ ncalls = 0

OptIdle ==
    /\ w = None /\ dw = None /\ config = <<>> /\ next_w = None /\ nsteps = 0

\* All tensors of one shape with entries in vals
TensorsOf(shape, vals) ==
    {Tensor(shape, d) : d \in [1..ProdSeq(shape) -> vals]}

---------------------------------------------------------------------------
(* The layer primitives called directly, on arguments of compatible       *)
(* shapes: x of shape (N, 2) or (N, 1, 2), w of shape (2, 2), b of shape   *)
(* (2,), dout of shape (N, 2).                                             *)

LayerBatches == {1, 2}
LayerVals    == {-1, 1}
LayerBiases  == {0, 1}

InitLayers ==
    /\ \E N \in LayerBatches :
          /\ lx \in TensorsOf(<<N, 2>>, LayerVals) \cup TensorsOf(<<N, 1, 2>>, LayerVals)
          /\ ldout \in {Tensor(<<N, 2>>, [e \in 1..(2 * N) |-> sgn * e]) : sgn \in LayerVals}
    /\ lw \in TensorsOf(<<2, 2>>, LayerVals)
    /\ lb \in TensorsOf(<<2>>, LayerBiases)
    /\ lres = [fused |-> <<>>, separate |-> <<>>]
    /\ CallsIdle
    /\ NetIdle
    /\ OptIdle

\* out, cache = Linear_ReLU.forward(x, w, b); Linear_ReLU.backward(dout, cache)
Call_Linear_ReLU ==
    /\ lres.fused = <<>>
    /\ LET f  == Linear_ReLU_forward(lx, lw, lb)
           bk == Linear_ReLU_backward(ldout, f.cache)
       IN  lres' = [lres EXCEPT !.fused =
                       <<[out |-> f.out, dx |-> bk.dx, dw |-> bk.dw, db |-> bk.db]>>]
    /\ UNCHANGED <<lx, lw, lb, ldout, callVars, netVars, optVars>>

\* a, fc_cache = Linear.forward(x, w, b); out, relu_cache = ReLU.forward(a);
\* da = ReLU.backward(dout, relu_cache); Linear.backward(da, fc_cache)
Call_Linear_then_ReLU ==
    /\ lres.separate = <<>>
    /\ LET a  == Linear_forward(lx, lw, lb)
           r  == ReLU_forward(a.out)
           da == ReLU_backward(ldout, r.cache)
           bk == Linear_backward(da, a.cache)
       IN  lres' = [lres EXCEPT !.separate =
                       <<[out |-> r.out, dx |-> bk.dx, dw |-> bk.dw, db |-> bk.db]>>]
    /\ UNCHANGED <<lx, lw, lb, ldout, callVars, netVars, optVars>>

NextLayers == Call_Linear_ReLU \/ Call_Linear_then_ReLU

SpecLayers == InitLayers /\ [][NextLayers]_vars

---------------------------------------------------------------------------
(* C8: Linear_ReLU.forward returns the output of ReLU.forward applied to   *)
(* the output of Linear.forward, and Linear_ReLU.backward returns the same *)
(* (dx, dw, db) as ReLU.backward followed by Linear.backward on the caches *)
(* of those separate forward calls, for every x, w, b and dout.            *)
C8_FusedEqualsSeparate ==
    (lres.fused # <<>> /\ lres.separate # <<>>) => lres.fused = lres.separate

\* Both ways were run on an input whose pre-activation has an entry that is
\* exactly 0 and one that is positive, with three-dimensional x.
C8_Witness ==
    /\ lres.fused # <<>> /\ lres.separate # <<>>
    /\ Len(lx.shape) = 3
    /\ LET a == Linear_forward(lx, lw, lb).out
       IN  /\ \E e \in 1..Len(a.data) : a.data[e] = 0
           /\ \E e \in 1..Len(a.data) : a.data[e] > 0
    /\ \E e \in 1..Len(lres.fused[1].dw.data) : lres.fused[1].dw.data[e] # 0

---------------------------------------------------------------------------
(* The networks: construction.                                             *)

\* Loss calls made on one network
MaxCalls == 2
\* Longest hidden_dims list
MaxHidden == 3

InitRngs    == {0, 8, 12}
InputDims   == {2}
ClassCounts == {2}
HiddenDimsSet == {[k \in 1..n |-> 1] : n \in 0..MaxHidden} \cup {<<2>>}
Regs     == {0, 1}
Dropouts == {<<0, 1>>, <<1, 2>>}       \* dropout = 0 and dropout = 1/2
Seeds    == {<<>>, <<5>>}              \* seed = None and seed = 5

\* str(i)
Str(n) == <<"1", "2", "3", "4", "5", "6", "7", "8", "9">>[n]

\* weight_scale * torch.randn(shape): one draw per element from the process-wide
\* generator; the scaled normal sample is 1 or -1 with the draw's upper half
randn(shape, s) ==
    [t   |-> Tensor(shape,
                    [e \in 1..ProdSeq(shape) |->
                        IF 2 * rng_after(s, e) >= RngMod THEN 1 ELSE -1]),
     rng |-> rng_after(s, ProdSeq(shape))]

Init ==
    /\ ctor = NoNet /\ net = NoNet /\ err = "none" /\ pc = "idle"
    /\ rng \in InitRngs
    /\ FrameIdle
    /\ ret = NoRet /\ log = <<>> /\ ncalls = 0
    /\ LayersIdle
    /\ OptIdle

TwoLayerNet_init ==
    /\ ctor = NoNet
    /\ \E input_dim \in InputDims, hidden_dim \in {1, 2}, num_classes \in ClassCounts,
          reg \in Regs :
          LET W1 == randn(<<input_dim, hidden_dim>>, rng)
              W2 == randn(<<hidden_dim, num_classes>>, W1.rng)
          IN  /\ ctor' = [class |-> "TwoLayerNet", hidden_dim |-> hidden_dim]
              /\ net' = [class  |-> "TwoLayerNet",
                         reg    |-> reg,
                         params |-> ("W1" :> W1.t @@ "b1" :> zeros(hidden_dim) @@
                                     "W2" :> W2.t @@ "b2" :> zeros(num_classes))]
              /\ rng' = W2.rng
    /\ UNCHANGED <<err, pc, frameVars, ret, log, ncalls, layerVars, optVars>>

\* The loop of FullyConnectedNet.__init__ from its iteration k on: W(k+1), b(k+1)
RECURSIVE init_middle(_, _, _, _)
init_middle(hd, k, params, s) ==
    IF k > Len(hd) - 1 THEN [params |-> params, rng |-> s]
    ELSE LET W == randn(<<hd[k], hd[k + 1]>>, s)
         IN  init_middle(hd, k + 1,
                         params @@ ("W" \o Str(k + 1)) :> W.t
                                @@ ("b" \o Str(k + 1)) :> zeros(hd[k + 1]),
                         W.rng)

FullyConnectedNet_init ==
    /\ ctor = NoNet
    /\ \E hd \in HiddenDimsSet, input_dim \in InputDims, num_classes \in ClassCounts,
          dropout \in Dropouts, reg \in Regs, seed \in Seeds :
          LET num_layers == 1 + Len(hd)
              mid == init_middle(hd, 1, <<>>, rng)
              W1  == randn(<<input_dim, hd[1]>>, mid.rng)
              WL  == randn(<<hd[num_layers - 1], num_classes>>, W1.rng)
              use_dropout == dropout[1] # 0
              dropout_param ==
                  IF ~use_dropout THEN <<>>
                  ELSE IF seed = <<>> THEN [mode |-> "train", p |-> dropout]
                  ELSE [mode |-> "train", p |-> dropout, seed |-> seed[1]]
          IN  /\ ctor' = [class |-> "FullyConnectedNet", hidden_dims |-> hd]
              /\ IF Len(hd) = 0
                 THEN \* hidden_dims[0] raises; no object comes to be
                      /\ err' = "IndexError"
                      /\ UNCHANGED <<net, rng>>
                 ELSE /\ net' = [class  |-> "FullyConnectedNet",
                                 use_dropout |-> use_dropout,
                                 reg    |-> reg,
                                 num_layers |-> num_layers,
                                 params |->
                                     ("W" \o Str(num_layers)) :> WL.t
                                     @@ ("b" \o Str(num_layers)) :> zeros(num_classes)
                                     @@ "W1" :> W1.t @@ "b1" :> zeros(hd[1])
                                     @@ mid.params,
                                 dropout_param |-> dropout_param]
                      /\ rng' = WL.rng
                      /\ UNCHANGED err
    /\ UNCHANGED <<pc, frameVars, ret, log, ncalls, layerVars, optVars>>

---------------------------------------------------------------------------
(* The networks: the inputs of loss.                                       *)

XSet(D) ==
    TensorsOf(<<1, D>>, {-1, 1})
        \cup {Tensor(<<2, D>>, [e \in 1..(2 * D) |-> IF e % 3 = 0 THEN -1 ELSE 1])}

YSet(N, C) == {YNone} \cup {Labels(v) : v \in [1..N -> 0..(C - 1)]}

---------------------------------------------------------------------------
(* TwoLayerNet.loss.  Lines 253 and 255 assign the parameters from the      *)
(* caches, which hold those same tensors: self.params is left as it is.     *)

\* The variant that returns the output of the second layer as it is
TwoLayerNet_loss_raw(self, Xin, yin) ==
    LET W1 == self.params["W1"]
        W2 == self.params["W2"]
        f1 == Linear_ReLU_forward(Xin, W1, self.params["b1"])
        f2 == Linear_forward(f1.out, W2, self.params["b2"])
        scores_ == f2.out
        sl  == softmax_loss(f2.out, yin.v)
        loss_ == loss_add(sl.loss, self.reg * (sum_sq(W1) + sum_sq(W2)) * FixOne)
        bk2 == Linear_backward(sl.dx, f2.cache)
        bk1 == Linear_ReLU_backward(bk2.dx, f1.cache)
    IN  IF yin.is_none
        THEN [kind |-> "scores", scores |-> scores_]
        ELSE [kind  |-> "loss",
              loss  |-> loss_,
              grads |-> ("W1" :> bk1.dw @@ "W2" :> bk2.dw @@
                         "b1" :> bk1.db @@ "b2" :> bk2.db)]

TwoLayerNet_loss(self, Xin, yin) ==
    LET W1 == self.params["W1"]
        W2 == self.params["W2"]
        f1 == Linear_ReLU_forward(Xin, W1, self.params["b1"])
        f2 == Linear_forward(f1.out, W2, self.params["b2"])
        scores_ == softmax(f2.out)
        sl  == softmax_loss(f2.out, yin.v)
        loss_ == loss_add(sl.loss, self.reg * (sum_sq(W1) + sum_sq(W2)) * FixOne)
        bk2 == Linear_backward(sl.dx, f2.cache)
        bk1 == Linear_ReLU_backward(bk2.dx, f1.cache)
    IN  IF yin.is_none
        THEN [kind |-> "scores", scores |-> scores_]
        ELSE [kind  |-> "loss",
              loss  |-> loss_,
              grads |-> ("W1" :> bk1.dw @@ "W2" :> bk2.dw @@
                         "b1" :> bk1.db @@ "b2" :> bk2.db)]

Call_TwoLayerNet_loss ==
    /\ net.class = "TwoLayerNet"
    /\ ncalls < MaxCalls
    /\ \E Xin \in XSet(net.params["W1"].shape[1]) :
          \E yin \in YSet(size0(Xin), Len(net.params["b2"].data)) :
              /\ X' = Xin
              /\ y' = yin
              /\ ret' = TwoLayerNet_loss(net, Xin, yin)
    /\ ncalls' = ncalls + 1
    /\ UNCHANGED <<ctor, net, err, rng, pc, log, layerVars, optVars>>
    /\ UNCHANGED <<mode, out, cache, cache_drop, scores, loss, dout, grads, i>>

---------------------------------------------------------------------------
(* FullyConnectedNet.loss, a step at a time.  pc is "idle" between calls;   *)
(* the locals then show what the last call left in them.                   *)

W_(n) == "W" \o Str(n)
b_(n) == "b" \o Str(n)

Event(op, layer, c) == [op |-> op, layer |-> layer, cache |-> c]

\* lines 372-383
loss_begin ==
    /\ net.class = "FullyConnectedNet"
    /\ pc = "idle"
    /\ ncalls < MaxCalls
    /\ \E Xin \in XSet(net.params["W1"].shape[1]) :
          \E yin \in YSet(size0(Xin), Len(net.params[b_(net.num_layers)].data)) :
              /\ X' = Xin
              /\ y' = yin
              /\ mode' = IF yin.is_none THEN "test" ELSE "train"
              /\ out' = (0 :> Xin)
    /\ net' = IF net.use_dropout
              THEN [net EXCEPT !.dropout_param.mode = mode']
              ELSE net
    /\ cache' = <<>> /\ cache_drop' = <<>>
    /\ scores' = None /\ loss' = NoLoss /\ dout' = <<>> /\ grads' = <<>>
    /\ i' = 0
    /\ pc' = "forward"
    /\ ret' = NoRet
    /\ log' = <<>>
    /\ UNCHANGED <<ctor, err, rng, ncalls, layerVars, optVars>>

\* lines 384-387: one iteration of the forward loop
loss_forward ==
    /\ pc = "forward"
    /\ i < net.num_layers - 1
    /\ LET lr == Linear_ReLU_forward(out[i], net.params[W_(i + 1)], net.params[b_(i + 1)])
           dr == Dropout_forward(lr.out, net.dropout_param, rng)
       IN  IF net.use_dropout
           THEN /\ out' = ((i + 1) :> dr.out) @@ out
                /\ cache_drop' = ((i + 1) :> dr.cache) @@ cache_drop
                /\ rng' = dr.rng
                /\ log' = log \o <<Event("Linear_ReLU.forward", i + 1, lr.cache),
                                   Event("Dropout.forward", i + 1, dr.cache)>>
                /\ cache' = ((i + 1) :> lr.cache) @@ cache
           ELSE /\ out' = ((i + 1) :> lr.out) @@ out
                /\ log' = Append(log, Event("Linear_ReLU.forward", i + 1, lr.cache))
                /\ cache' = ((i + 1) :> lr.cache) @@ cache
                /\ UNCHANGED <<cache_drop, rng>>
    /\ i' = i + 1
    /\ UNCHANGED <<ctor, net, err, pc, X, y, mode, scores, loss, dout, grads, ret, ncalls,
                   layerVars, optVars>>

\* lines 388-390: the last layer
loss_scores ==
    /\ pc = "forward"
    /\ i >= net.num_layers - 1
    /\ LET L  == net.num_layers
           ln == Linear_forward(out[L - 1], net.params[W_(L)], net.params[b_(L)])
           dr == Dropout_forward(ln.out, net.dropout_param, rng)
       IN  /\ cache' = (L :> ln.cache) @@ cache
           /\ IF net.use_dropout
              THEN /\ scores' = dr.out
                   /\ cache_drop' = (L :> dr.cache) @@ cache_drop
                   /\ rng' = dr.rng
                   /\ log' = log \o <<Event("Linear.forward", L, ln.cache),
                                      Event("Dropout.forward", L, dr.cache)>>
              ELSE /\ scores' = ln.out
                   /\ log' = Append(log, Event("Linear.forward", L, ln.cache))
                   /\ UNCHANGED <<cache_drop, rng>>
    /\ pc' = "mode"
    /\ UNCHANGED <<ctor, net, err, X, y, mode, out, loss, dout, grads, i, ret, ncalls,
                   layerVars, optVars>>

\* lines 393-394
loss_return_scores ==
    /\ pc = "mode"
    /\ mode = "test"
    /\ ret' = [kind |-> "scores", scores |-> scores]
    /\ pc' = "idle"
    /\ ncalls' = ncalls + 1
    /\ UNCHANGED <<ctor, net, err, rng, frameVars, log, layerVars, optVars>>

\* 0.5 * self.reg * torch.sum(W * W), in units of 1/FixOne
half_reg_sq(self, key) == (self.reg * sum_sq(self.params[key]) * FixOne) \div 2

\* lines 396-402: the loss and the backward pass of the last layer
loss_softmax ==
    /\ pc = "mode"
    /\ mode # "test"
    /\ LET L  == net.num_layers
           sl == softmax_loss(scores, y.v)
           ds == IF net.use_dropout
                 THEN Dropout_backward(sl.dx, cache_drop[L], net.dropout_param)
                 ELSE sl.dx
           bk == Linear_backward(ds, cache[L])
       IN  /\ loss' = sl.loss
           /\ dout' = (L :> bk.dx)
           /\ grads' = (W_(L) :> add_scaled(bk.dw, net.reg, bk.dw)) @@ (b_(L) :> bk.db)
           /\ log' = log \o
                  (IF net.use_dropout
                   THEN <<Event("Dropout.backward", L, cache_drop[L])>> ELSE <<>>)
                  \o <<Event("Linear.backward", L, cache[L])>>
           /\ i' = L - 1
    /\ pc' = "backward"
    /\ UNCHANGED <<ctor, net, err, rng, X, y, mode, out, cache, cache_drop, scores, ret,
                   ncalls, layerVars, optVars>>

\* The slip of an index off by one: the dropout backward before layer i's
\* backward run on the dropout cache of layer i + 1
loss_backward_next_drop ==
    /\ pc = "backward"
    /\ i > 1
    /\ LET d  == IF net.use_dropout
                 THEN Dropout_backward(dout[i + 1], cache_drop[i + 1], net.dropout_param)
                 ELSE dout[i + 1]
           bk == Linear_ReLU_backward(d, cache[i])
       IN  /\ dout' = (i :> bk.dx) @@ ((i + 1) :> d) @@ dout
           /\ grads' = (W_(i) :> add_scaled(bk.dw, net.reg, bk.dw)) @@ (b_(i) :> bk.db)
                       @@ grads
           /\ log' = log \o
                  (IF net.use_dropout
                   THEN <<Event("Dropout.backward", i + 1, cache_drop[i + 1])>> ELSE <<>>)
                  \o <<Event("Linear_ReLU.backward", i, cache[i])>>
    /\ loss' = loss_add(loss, half_reg_sq(net, W_(i + 1)))
    /\ i' = i - 1
    /\ UNCHANGED <<ctor, net, err, rng, pc, X, y, mode, out, cache, cache_drop, scores, ret,
                   ncalls, layerVars, optVars>>

\* lines 403-408: one iteration of the backward loop, for layer i
loss_backward ==
    /\ pc = "backward"
    /\ i > 1
    /\ LET d  == IF net.use_dropout
                 THEN Dropout_backward(dout[i + 1], cache_drop[i], net.dropout_param)
                 ELSE dout[i + 1]
           bk == Linear_ReLU_backward(d, cache[i])
       IN  /\ dout' = (i :> bk.dx) @@ ((i + 1) :> d) @@ dout
           /\ grads' = (W_(i) :> add_scaled(bk.dw, net.reg, bk.dw)) @@ (b_(i) :> bk.db)
                       @@ grads
           /\ log' = log \o
                  (IF net.use_dropout
                   THEN <<Event("Dropout.backward", i, cache_drop[i])>> ELSE <<>>)
                  \o <<Event("Linear_ReLU.backward", i, cache[i])>>
    /\ loss' = loss_add(loss, half_reg_sq(net, W_(i + 1)))
    /\ i' = i - 1
    /\ UNCHANGED <<ctor, net, err, rng, pc, X, y, mode, out, cache, cache_drop, scores, ret,
                   ncalls, layerVars, optVars>>

\* lines 409-413: the first layer, and the return
loss_first ==
    /\ pc = "backward"
    /\ i <= 1
    /\ LET d  == IF net.use_dropout
                 THEN Dropout_backward(dout[2], cache_drop[1], net.dropout_param)
                 ELSE dout[2]
           bk == Linear_ReLU_backward(d, cache[1])
       IN  /\ dout' = (2 :> d) @@ dout
           /\ grads' = ("W1" :> bk.dw) @@ ("b1" :> bk.db) @@ grads
           /\ loss' = loss_add(loss, half_reg_sq(net, "W1"))
           /\ ret' = [kind |-> "loss", loss |-> loss', grads |-> grads']
           /\ log' = log \o
                  (IF net.use_dropout
                   THEN <<Event("Dropout.backward", 1, cache_drop[1])>> ELSE <<>>)
                  \o <<Event("Linear_ReLU.backward", 1, cache[1])>>
    /\ pc' = "idle"
    /\ ncalls' = ncalls + 1
    /\ UNCHANGED <<ctor, net, err, rng, X, y, mode, out, cache, cache_drop, scores, i,
                   layerVars, optVars>>

Next ==
    \/ TwoLayerNet_init
    \/ FullyConnectedNet_init
    \/ Call_TwoLayerNet_loss
    \/ loss_begin
    \/ loss_forward
    \/ loss_scores
    \/ loss_return_scores
    \/ loss_softmax
    \/ loss_backward
    \/ loss_first

Spec == Init /\ [][Next]_vars

---------------------------------------------------------------------------
(* The update rules.  The parameter, the gradient and the scalars of the   *)
(* config are fixed-point numbers in units of 1/OptOne, rounded down;      *)
(* epsilon = 1e-8 is below the unit and adds 0.                             *)

OptOne == 1000
\* Update calls made on one parameter
MaxSteps == 3

fmul(a, b) == (a * b) \div OptOne

\* a / (b + epsilon); b = 0 leaves the denominator epsilon, under a = 0 here
fdiv(a, b) == IF b = 0 THEN 0 ELSE (a * OptOne) \div b

RECURSIVE isqrt(_, _, _)
isqrt(n, lo, hi) ==
    IF lo >= hi THEN lo
    ELSE LET mid == (lo + hi + 1) \div 2
         IN  IF mid * mid <= n THEN isqrt(n, mid, hi) ELSE isqrt(n, lo, mid - 1)

\* torch.sqrt
fsqrt(a) == isqrt(a * OptOne, 0, a + OptOne)

RECURSIVE fpow(_, _)
fpow(a, n) == IF n = 0 THEN OptOne ELSE fmul(a, fpow(a, n - 1))

\* A tensor of the shape of a, of the elements f[e]
like(a, f) == Tensor(a.shape, [e \in 1..Len(a.data) |-> f[e]])

\* config.setdefault(key, val)
setdefault(cfg, key, val) == IF key \in DOMAIN cfg THEN cfg ELSE cfg @@ (key :> val)

\* config[key] = val
setitem(cfg, key, val) == (key :> val) @@ cfg

\* Each rule yields next_w and config, what it returns, and w, what the
\* tensor it was passed holds when it returns.  The defaults 1e-2, 1e-3, 0.9,
\* 0.99 and 0.999 are 10, 1, 900, 990 and 999 units.

sgd(w_, dw_, config_) ==
    LET c1 == setdefault(config_, "learning_rate", 10)
        w1 == like(w_, [e \in 1..Len(w_.data) |->
                           w_.data[e] - fmul(c1["learning_rate"], dw_.data[e])])
    IN  [next_w |-> w1, config |-> c1, w |-> w1]      \* w -= ...; return w

sgd_momentum(w_, dw_, config_) ==
    LET c1 == setdefault(setdefault(config_, "learning_rate", 10), "momentum", 900)
        v0 == IF "velocity" \in DOMAIN c1 THEN c1["velocity"] ELSE zeros_like(w_)
        v  == like(w_, [e \in 1..Len(w_.data) |->
                           fmul(c1["momentum"], v0.data[e])
                               - fmul(c1["learning_rate"], dw_.data[e])])
    IN  [next_w |-> like(w_, [e \in 1..Len(w_.data) |-> w_.data[e] + v.data[e]]),
         config |-> setitem(c1, "velocity", v),
         w      |-> w_]

rmsprop(w_, dw_, config_) ==
    LET c1 == setdefault(setdefault(setdefault(setdefault(config_,
                  "learning_rate", 10), "decay_rate", 990), "epsilon", 0),
                  "cache", zeros_like(w_))
        cache_ == like(w_, [e \in 1..Len(w_.data) |->
                      fmul(c1["decay_rate"], c1["cache"].data[e])
                          + fmul(OptOne - c1["decay_rate"],
                                 fmul(dw_.data[e], dw_.data[e]))])
        step == [e \in 1..Len(w_.data) |->
                    fmul(c1["learning_rate"],
                         fdiv(dw_.data[e], fsqrt(cache_.data[e]) + c1["epsilon"]))]
    IN  [next_w |-> like(w_, [e \in 1..Len(w_.data) |-> w_.data[e] - step[e]]),
         config |-> setitem(c1, "cache", cache_),
         w      |-> w_]

\* adam with the moving averages started from zero in every call
adam_fresh_moments(w_, dw_, config_) ==
    LET c1 == setdefault(setdefault(setdefault(setdefault(setdefault(
              config_,
                  "learning_rate", 1), "beta1", 900), "beta2", 999), "epsilon", 0),
                  "t", 0)
        beta1 == c1["beta1"]
        beta2 == c1["beta2"]
        t_ == c1["t"] + 1
        m  == like(w_, [e \in 1..Len(w_.data) |-> fmul(OptOne - beta1, dw_.data[e])])
        mh == [e \in 1..Len(w_.data) |-> fdiv(m.data[e], OptOne - fpow(beta1, t_))]
        v  == like(w_, [e \in 1..Len(w_.data) |->
                  fmul(OptOne - beta2, fmul(dw_.data[e], dw_.data[e]))])
        vh == [e \in 1..Len(w_.data) |-> fdiv(v.data[e], OptOne - fpow(beta2, t_))]
        step == [e \in 1..Len(w_.data) |->
                    fmul(c1["learning_rate"],
                         fdiv(mh[e], fsqrt(vh[e]) + c1["epsilon"]))]
    IN  [next_w |-> like(w_, [e \in 1..Len(w_.data) |-> w_.data[e] - step[e]]),
         config |-> setitem(setitem(setitem(c1, "t", t_), "m", m), "v", v),
         w      |-> w_]

adam(w_, dw_, config_) ==
    LET c1 == setdefault(setdefault(setdefault(setdefault(setdefault(setdefault(
              setdefault(config_,
                  "learning_rate", 1), "beta1", 900), "beta2", 999), "epsilon", 0),
                  "m", zeros_like(w_)), "v", zeros_like(w_)), "t", 0)
        beta1 == c1["beta1"]
        beta2 == c1["beta2"]
        t_ == c1["t"] + 1
        m  == like(w_, [e \in 1..Len(w_.data) |->
                  fmul(beta1, c1["m"].data[e]) + fmul(OptOne - beta1, dw_.data[e])])
        mh == [e \in 1..Len(w_.data) |-> fdiv(m.data[e], OptOne - fpow(beta1, t_))]
        v  == like(w_, [e \in 1..Len(w_.data) |->
                  fmul(beta2, c1["v"].data[e])
                      + fmul(OptOne - beta2, fmul(dw_.data[e], dw_.data[e]))])
        vh == [e \in 1..Len(w_.data) |-> fdiv(v.data[e], OptOne - fpow(beta2, t_))]
        step == [e \in 1..Len(w_.data) |->
                    fmul(c1["learning_rate"],
                         fdiv(mh[e], fsqrt(vh[e]) + c1["epsilon"]))]
    IN  [next_w |-> like(w_, [e \in 1..Len(w_.data) |-> w_.data[e] - step[e]]),
         config |-> setitem(setitem(setitem(c1, "t", t_), "m", m), "v", v),
         w      |-> w_]

OptWs  == {Tensor(<<2>>, <<1000, -2000>>), Tensor(<<2>>, <<0, 500>>)}
OptDws == {Tensor(<<2>>, <<1000, -1000>>), Tensor(<<2>>, <<0, 2000>>),
           Tensor(<<2>>, <<0, 0>>)}
\* config=None, and a config that sets the learning rate to 0.1
OptConfigs == {<<>>, [learning_rate |-> 100]}

InitOpt ==
    /\ w \in OptWs
    /\ dw \in OptDws
    /\ config \in OptConfigs
    /\ next_w = None
    /\ nsteps = 0
    /\ LayersIdle
    /\ NetIdle

\* The running statistics that the rules keep in config
RuleState == {"velocity", "cache", "m", "v", "t"}

\* One rule serves a parameter for a whole run: the state in config is its own
Fits(keys) == (DOMAIN config) \cap RuleState \subseteq keys

\* next_w, config = rule(w, dw, config), and the gradient of the next call
Called(r) ==
    /\ nsteps < MaxSteps
    /\ w' = r.w
    /\ next_w' = r.next_w
    /\ config' = r.config
    /\ nsteps' = nsteps + 1
    /\ dw' \in OptDws
    /\ UNCHANGED <<layerVars, netVars>>

Call_sgd == Fits({}) /\ Called(sgd(w, dw, config))

Call_sgd_momentum == Fits({"velocity"}) /\ Called(sgd_momentum(w, dw, config))

Call_rmsprop == Fits({"cache"}) /\ Called(rmsprop(w, dw, config))

Call_adam == Fits({"m", "v", "t"}) /\ Called(adam(w, dw, config))

\* The driver takes the returned tensor for the parameter
Adopt ==
    /\ next_w # None
    /\ w # next_w
    /\ w' = next_w
    /\ UNCHANGED <<dw, config, next_w, nsteps, layerVars, netVars>>

NextOpt == Call_sgd \/ Call_sgd_momentum \/ Call_rmsprop \/ Call_adam \/ Adopt

SpecOpt == InitOpt /\ [][NextOpt]_vars

(* C10: each of sgd, sgd_momentum, rmsprop and adam returns the updated    *)
(* parameter and leaves the tensor w it was passed unchanged; config is    *)
(* the only argument any of them changes.                                  *)
C10_RulesLeaveParameter ==
    [][nsteps' = nsteps + 1 => w' = w]_vars

\* The entry of config that a call reads: the stored one, or the default
stored(key, default) == IF key \in DOMAIN config THEN config[key] ELSE default

(* C13: in a chain of adam calls on one parameter, each passed the config  *)
(* the call before returned, every call stores t one above the t it was    *)
(* passed (0 when config has none, so t is k after the k-th call), builds  *)
(* its m and v from the m and v the call before stored, and divides them   *)
(* by 1 - beta1^t and 1 - beta2^t for the t it has just stored.            *)
C13_AdamStateCarriesOver ==
    [][Call_adam =>
        LET b1 == config'["beta1"]
            b2 == config'["beta2"]
            m0 == stored("m", zeros_like(w))
            v0 == stored("v", zeros_like(w))
            tk == config'["t"]
        IN  /\ tk = stored("t", 0) + 1
            /\ \A e \in 1..Len(w.data) :
                  /\ config'["m"].data[e]
                        = fmul(b1, m0.data[e]) + fmul(OptOne - b1, dw.data[e])
                  /\ config'["v"].data[e]
                        = fmul(b2, v0.data[e])
                              + fmul(OptOne - b2, fmul(dw.data[e], dw.data[e]))
                  /\ next_w'.data[e]
                        = w.data[e]
                            - fmul(config'["learning_rate"],
                                   fdiv(fdiv(config'["m"].data[e], OptOne - fpow(b1, tk)),
                                        fsqrt(fdiv(config'["v"].data[e],
                                                   OptOne - fpow(b2, tk)))
                                            + config'["epsilon"]))
    ]_vars

\* MaxSteps adam calls were made from a config without t, the last on moving
\* averages the calls before left non-zero, and it moved the parameter.
C13_Witness ==
    /\ nsteps = MaxSteps
    /\ "t" \in DOMAIN config /\ config["t"] = MaxSteps
    /\ \E e \in 1..Len(w.data) : config["m"].data[e] # 0 /\ config["v"].data[e] # 0
    /\ next_w # w

---------------------------------------------------------------------------
(* Claims about the networks.                                              *)

TwoTrained == net.class = "TwoLayerNet" /\ ret.kind = "loss"
FcnTrained == net.class = "FullyConnectedNet" /\ pc = "idle" /\ ret.kind = "loss"

\* The output of the chain Linear_ReLU -> Linear of TwoLayerNet on X
two_linear_out2 ==
    LET f1 == Linear_ReLU_forward(X, net.params["W1"], net.params["b1"])
    IN  Linear_forward(f1.out, net.params["W2"], net.params["b2"])

\* The gradients of the softmax loss alone, back-propagated through the two layers
two_data_grads ==
    LET f1  == Linear_ReLU_forward(X, net.params["W1"], net.params["b1"])
        f2  == Linear_forward(f1.out, net.params["W2"], net.params["b2"])
        bk2 == Linear_backward(softmax_loss(f2.out, y.v).dx, f2.cache)
        bk1 == Linear_ReLU_backward(bk2.dx, f1.cache)
    IN  [W1 |-> bk1.dw, b1 |-> bk1.db, W2 |-> bk2.dw, b2 |-> bk2.db]

(* C2: the gradients TwoLayerNet.loss(X, y) returns for W1 and W2 each     *)
(* include 2*reg*W, the derivative of the term reg*(sum(W1^2)+sum(W2^2))   *)
(* the call adds to the loss; those for b1 and b2 include no               *)
(* regularization.                                                         *)
C2_TwoLayerRegGradient ==
    TwoTrained =>
        /\ ret.grads["W1"] =
               add_scaled(two_data_grads.W1, 2 * net.reg * FixOne, net.params["W1"])
        /\ ret.grads["W2"] =
               add_scaled(two_data_grads.W2, 2 * net.reg * FixOne, net.params["W2"])
        /\ ret.grads["b1"] = two_data_grads.b1
        /\ ret.grads["b2"] = two_data_grads.b2

C5_EmptyHiddenDimsOneLayer ==
    (ctor.class = "FullyConnectedNet" /\ ctor.hidden_dims = <<>>) =>
        /\ err = "none"
        /\ net.class = "FullyConnectedNet"
        /\ net.num_layers = 1
        /\ DOMAIN net.params = {"W1", "b1"}
        /\ Len(net.params["W1"].shape) = 2
        /\ (ret.kind = "loss" => DOMAIN ret.grads = {"W1", "b1"})

\* The softmax data loss of the last FullyConnectedNet.loss call, and its
\* gradient as it enters the last layer's backward
fcn_softmax == softmax_loss(scores, y.v)

fcn_ds ==
    IF net.use_dropout
    THEN Dropout_backward(fcn_softmax.dx, cache_drop[net.num_layers], net.dropout_param)
    ELSE fcn_softmax.dx

\* The back-propagated gradient of the data loss for W of layer k
fcn_data_dw(k) ==
    IF k = net.num_layers
    THEN Linear_backward(fcn_ds, cache[k]).dw
    ELSE Linear_ReLU_backward(dout[k + 1], cache[k]).dw

RECURSIVE fcn_reg_loss(_)
fcn_reg_loss(k) == IF k = 0 THEN 0 ELSE half_reg_sq(net, W_(k)) + fcn_reg_loss(k - 1)

(* C3: the loss FullyConnectedNet.loss(X, y) returns is the softmax data   *)
(* loss plus 0.5*reg*sum(Wi^2) summed over every layer i in 1..L.          *)
C3_LossRegularizesEveryLayer ==
    FcnTrained =>
        ret.loss = loss_add(fcn_softmax.loss, fcn_reg_loss(net.num_layers))

(* C4: every weight gradient grads['Wi'] that FullyConnectedNet.loss(X, y) *)
(* returns, for i in 1..L, is the back-propagated data-loss gradient for   *)
(* Wi plus reg*Wi.                                                         *)
C4_GradientRegularizesEveryLayer ==
    FcnTrained =>
        \A k \in 1..net.num_layers :
            ret.grads[W_(k)] =
                add_scaled(fcn_data_dw(k), net.reg * FixOne, net.params[W_(k)])

(* C7: every training-mode loss call of TwoLayerNet and of                 *)
(* FullyConnectedNet returns a gradient map whose keys are exactly the     *)
(* keys of the parameters, each gradient of the shape of its parameter.    *)
C7_GradsMatchParams ==
    (TwoTrained \/ FcnTrained) =>
        /\ DOMAIN ret.grads = DOMAIN net.params
        /\ \A k \in DOMAIN net.params : ret.grads[k].shape = net.params[k].shape

\* A training call on a batch of two returned from a network of four layers
\* with dropout, with a gradient that is not zero
C7_Witness ==
    /\ FcnTrained
    /\ net.num_layers = 4 /\ net.use_dropout /\ size0(X) = 2
    /\ \E e \in 1..Len(ret.grads["W1"].data) : ret.grads["W1"].data[e] # 0

AffineFwd == {"Linear.forward", "Linear_ReLU.forward"}
AffineBwd == {"Linear.backward", "Linear_ReLU.backward"}

\* The calls among ops that the last loss call made, in the order it made them
events(ops) == SelectSeq(log, LAMBDA e : e.op \in ops)

(* C1: in a training-mode FullyConnectedNet.loss call on a network of      *)
(* L >= 2 layers the backward steps run for the layers L, L-1, ..., 1 in   *)
(* that order, each on the cache the forward of the same layer stored in   *)
(* this call, and with dropout the dropout backward on layer i's dropout   *)
(* cache runs before the affine/ReLU backward of layer i.                  *)
C1_BackwardOrder ==
    FcnTrained =>
        LET L    == net.num_layers
            fw   == events(AffineFwd)
            bw   == events(AffineBwd)
            dfw  == events({"Dropout.forward"})
            back == events(AffineBwd \cup {"Dropout.backward"})
        IN  /\ Len(fw) = L
            /\ \A k \in 1..L : fw[k].layer = k
            /\ fw[1].cache[1] = X
            /\ Len(bw) = L
            /\ \A k \in 1..L : /\ bw[k].layer = L - k + 1
                               /\ bw[k].cache = fw[L - k + 1].cache
            /\ IF net.use_dropout
               THEN /\ Len(dfw) = L
                    /\ Len(back) = 2 * L
                    /\ \A k \in 1..L :
                          /\ dfw[k].layer = k
                          /\ back[2 * k - 1].op = "Dropout.backward"
                          /\ back[2 * k - 1].layer = L - k + 1
                          /\ back[2 * k - 1].cache = dfw[L - k + 1].cache
                          /\ back[2 * k].op \in AffineBwd
                          /\ back[2 * k].layer = L - k + 1
               ELSE back = bw

\* The second training call on a network of four layers with dropout returned
C1_Witness ==
    /\ FcnTrained
    /\ net.num_layers = 4 /\ net.use_dropout /\ ncalls = 2
    /\ Len(events(AffineBwd)) = 4

(* C9: Dropout.forward in test mode returns its input unchanged and leaves *)
(* the state of the process-wide random generator unchanged, with or       *)
(* without a seed in the configuration; so no step of a test-mode          *)
(* FullyConnectedNet.loss call changes the generator's state.              *)
C9_TestModeKeepsRng ==
    [][(net.class = "FullyConnectedNet" /\ pc # "idle" /\ mode = "test") =>
          /\ rng' = rng
          /\ (pc = "forward" /\ i < net.num_layers - 1) =>
                 out'[i + 1] = Linear_ReLU_forward(out[i], net.params[W_(i + 1)],
                                                   net.params[b_(i + 1)]).out
          /\ (pc = "forward" /\ i >= net.num_layers - 1) =>
                 scores' = Linear_forward(out[i], net.params[W_(i + 1)],
                                          net.params[b_(i + 1)]).out]_vars


---------------------------------------------------------------------------
(* Dropout called directly.  The caller holds one dropout_param dictionary *)
(* (lparam), calls Dropout.forward on it, keeps the cache, and later calls *)
(* Dropout.backward on that cache; in between, the mode entry of the       *)
(* dictionary may be assigned, as FullyConnectedNet.loss assigns it.       *)

\* 'train', 'test', and a string that is neither
DropModes == {"train", "test", "eval"}

DropoutParams ==
    {[p |-> p, mode |-> m] : p \in Dropouts, m \in DropModes}
    \cup {[p |-> p, mode |-> m, seed |-> sd] : p \in Dropouts, m \in DropModes, sd \in {5}}

InitDropout ==
    /\ lx \in TensorsOf(<<1, 2>>, LayerVals)
    /\ ldout \in {Tensor(<<1, 2>>, [e \in 1..2 |-> sgn * (e + 1)]) : sgn \in LayerVals}
    /\ lparam \in DropoutParams
    /\ rng \in InitRngs
    /\ lw = None /\ lb = None /\ lres = [fused |-> <<>>, separate |-> <<>>]
    /\ ly = <<>> /\ lfwd = <<>> /\ lbwd = <<>> /\ lsoft = <<>>
    /\ ctor = NoNet /\ net = NoNet /\ err = "none" /\ pc = "idle"
    /\ FrameIdle
    /\ ret = NoRet /\ log = <<>> /\ ncalls = 0
    /\ OptIdle

\* out, cache = Dropout.forward(x, dropout_param).  The record keeps, next to
\* what the call returned, the mode the dictionary held when it was made and
\* the exception the call raised ("none": it returned normally).
Call_Dropout_forward ==
    /\ lfwd = <<>>
    /\ LET r == Dropout_forward(lx, lparam, rng)
       IN  /\ lfwd' = <<[mode |-> lparam["mode"], raised |-> "none",
                         out |-> r.out, cache |-> r.cache]>>
           /\ rng' = r.rng
    /\ UNCHANGED <<lx, lw, lb, ldout, lres, ly, lparam, lbwd, lsoft,
                   ctor, net, err, pc, frameVars, ret, log, ncalls, optVars>>

\* dropout_param['mode'] = mode
Set_mode ==
    /\ \E m \in DropModes :
          /\ m # lparam["mode"]
          /\ lparam' = [lparam EXCEPT !["mode"] = m]
    /\ UNCHANGED <<lx, lw, lb, ldout, lres, ly, lfwd, lbwd, lsoft, netVars, optVars>>

\* dx = Dropout.backward(dout, cache), on the cache the forward call returned
Call_Dropout_backward ==
    /\ lfwd # <<>>
    /\ lbwd = <<>>
    /\ lbwd' = IF Dropout_backward_raises(lfwd[1].cache, lparam)
               THEN <<[mode |-> lparam["mode"], raised |-> "TypeError", dx |-> None]>>
               ELSE <<[mode |-> lparam["mode"], raised |-> "none",
                       dx |-> Dropout_backward(ldout, lfwd[1].cache, lparam)]>>
    /\ UNCHANGED <<lx, lw, lb, ldout, lres, ly, lparam, lfwd, lsoft, netVars, optVars>>

NextDropout == Call_Dropout_forward \/ Set_mode \/ Call_Dropout_backward

SpecDropout == InitDropout /\ [][NextDropout]_vars

(* C11: Dropout.forward and Dropout.backward called while the mode is a    *)
(* string other than 'train' or 'test' raise an error; they never return   *)
(* normally for an unrecognized mode.                                      *)
C11_UnknownModeRaises ==
    /\ \A k \in DOMAIN lfwd :
          lfwd[k].mode \notin {"train", "test"} => lfwd[k].raised # "none"
    /\ \A k \in DOMAIN lbwd :
          lbwd[k].mode \notin {"train", "test"} => lbwd[k].raised # "none"

(* C14: Dropout.backward on the cache of a train-mode Dropout.forward      *)
(* returns dout times the mask of that forward, and on the cache of a      *)
(* test-mode forward returns dout unchanged, whatever was assigned to the  *)
(* mode entry of the dropout configuration between the two calls.          *)
C14_CacheIsSnapshot ==
    \A k \in DOMAIN lbwd :
        /\ (lfwd[1].mode = "train" /\ lbwd[k].mode \in {"train", "test"})
              => lbwd[k].dx = mul(ldout, lfwd[1].cache[2])
        /\ (lfwd[1].mode = "test" /\ lbwd[k].mode \in {"train", "test"})
              => lbwd[k].dx = ldout

---------------------------------------------------------------------------
(* softmax_loss called directly, on scores of shape (N, SoftClasses) and a *)
(* label vector whose entries may lie outside 0..SoftClasses-1.            *)

SoftClasses == 2
\* In range, negative down to -C, and beyond either end
SoftLabels == (0 - SoftClasses - 1)..SoftClasses

InitSoftmax ==
    /\ \E N \in LayerBatches :
          /\ lx \in TensorsOf(<<N, SoftClasses>>, LayerVals)
          /\ ly \in [1..N -> SoftLabels]
    /\ lsoft = <<>>
    /\ lw = None /\ lb = None /\ ldout = None
    /\ lres = [fused |-> <<>>, separate |-> <<>>]
    /\ lparam = <<>> /\ lfwd = <<>> /\ lbwd = <<>>
    /\ NetIdle
    /\ OptIdle

\* loss, dx = softmax_loss(x, y); raised is the exception, "none" if it returned
Call_softmax_loss ==
    /\ lsoft = <<>>
    /\ LET r == softmax_loss(lx, ly)
       IN  lsoft' = <<[raised |-> r.err, loss |-> r.loss, dx |-> r.dx]>>
    /\ UNCHANGED <<lx, lw, lb, ldout, lres, ly, lparam, lfwd, lbwd, netVars, optVars>>

NextSoftmax == Call_softmax_loss

SpecSoftmax == InitSoftmax /\ [][NextSoftmax]_vars

(* C12: softmax_loss(x, y) with x of shape (N, C) raises an error for      *)
(* every label vector with an entry outside [0, C), negative entries in    *)
(* [-C, -1] included; it never returns a loss and gradient computed from   *)
(* an out-of-range label.                                                  *)
C12_OutOfRangeLabelRaises ==
    \A k \in DOMAIN lsoft :
        (\E r \in DOMAIN ly : ly[r] < 0 \/ ly[r] >= lx.shape[2])
            => lsoft[k].raised # "none"

=============================================================================
